---- MODULE Spec2Model ----
(***************************************************************************)
(* FileOps (src/file_flows/core.py): one interface over the local file     *)
(* system and an s3 object store, the backend chosen per path.             *)
(*                                                                         *)
(* A path is the sequence of its "/"-separated components:                 *)
(*   "/d/a.csv"       is <<"", "d", "a.csv">>                              *)
(*   "s3://bk/a.csv"  is <<"s3:", "", "bk", "a.csv">>                      *)
(* File contents are sequences of bytes.                                   *)
(***************************************************************************)
EXTENDS Integers, Sequences, FiniteSets, TLC

VARIABLES
    dirs,        \* local file system: the directories
    files,       \* local file system: regular file path -> content
    buckets,     \* object store: the buckets
    objects,     \* object store: <<bucket, key>> -> content
    op,          \* the last FileOps call: its name and arguments
    result,      \* "ok", or the name of the exception the last call raised
    ret,         \* the value the last call returned
    log,         \* the backend actions the last call issued, in order
    pre,         \* the backends' state when the last call began
    ncalls,      \* the calls made so far
    cache,       \* instance __dict__["s3"]: 0 when unset, else the handle
    constructed, \* how many times S3Ops(...) has been constructed
    locking,     \* whether the interpreter's cached_property holds a lock
    lock,        \* the cached_property lock: 0 when free, else its holder
    tpc,         \* per thread: where it is in its call
    tval,        \* per thread: the local `val` of cached_property.__get__
    tused,       \* per thread: the handles its calls have used
    tcalls       \* per thread: the calls it has begun

fsvars == <<dirs, files, buckets, objects>>
callvars == <<op, result, ret, log, pre, ncalls>>
thvars == <<locking, lock, tpc, tval, tused, tcalls>>
vars == <<dirs, files, buckets, objects, op, result, ret, log, pre, ncalls,
          cache, constructed, locking, lock, tpc, tval, tused, tcalls>>

----------------------------------------------------------------------------
\* Bounds of the model.

MaxCalls == 2
MaxThreadCalls == 2
NThreads == 2
Threads == 1..NThreads

----------------------------------------------------------------------------
\* Paths and contents the calls are made with.

Root == <<"">>
NoPath == << >>
D == <<"", "d">>
DA == <<"", "d", "a.csv">>
DB == <<"", "d", "b.txt">>
NE == <<"", "n", "e">>
SA == <<"s3:", "", "bk", "a.csv">>
SB == <<"s3:", "", "bk", "b.txt">>
SN == <<"s3:", "", "nb", "a.csv">>

Paths == {D, DA, DB, NE, SA, SB, SN}
Patterns == {"", "*.csv"}
Faults == {"none", "step", "mid", "delete"}

EmptyFn == [q \in {} |-> << >>]
Put(f, k, v) == [q \in (DOMAIN f) \cup {k} |-> IF q = k THEN v ELSE f[q]]
Remove(f, k) == [q \in (DOMAIN f) \ {k} |-> f[q]]

Last(p) == p[Len(p)]
Parent(p) == SubSeq(p, 1, Len(p) - 1)
Prefixes(p) == {SubSeq(p, 1, n) : n \in 1..Len(p)}
Ancestors(p) == Prefixes(p) \ {p}
Matches(pattern, name) == pattern = "*.csv" /\ name \in {"a.csv"}

St == [dirs |-> dirs, files |-> files, buckets |-> buckets, objects |-> objects]

\* The outcome of a backend action: the state it leaves, the exception it
\* raised ("ok" for none) and the value it returned.
Res(s, e, v) == [st |-> s, result |-> e, ret |-> v]
\* The outcome of a FileOps call that issues backend action a, whose outcome
\* is r: the same, with the action issued and what it raised.
Issue(r, a, s, d, f) ==
    [st |-> r.st, result |-> r.result, ret |-> r.ret,
     log |-> <<[act |-> a, src |-> s, dst |-> d, delete_src |-> f,
                raised |-> r.result]>>]

----------------------------------------------------------------------------
\* The local file system, as pathlib, os.path and shutil act on it.

FileAncestor(s, p) == \E q \in Ancestors(p) : q \in DOMAIN s.files
Children(s, d) == {p \in s.dirs \cup DOMAIN s.files : Len(p) > 1 /\ Parent(p) = d}

\* Path(p).exists()
path_exists(s, p) == p \in s.dirs \/ p \in DOMAIN s.files

\* Path(p).mkdir(exist_ok=True, parents=True)
mkdir(s, p) ==
    IF p \in s.dirs THEN Res(s, "ok", "None")
    ELSE IF p \in DOMAIN s.files THEN Res(s, "FileExistsError", "None")
    ELSE IF FileAncestor(s, p) THEN Res(s, "NotADirectoryError", "None")
    ELSE Res([s EXCEPT !.dirs = @ \cup Prefixes(p)], "ok", "None")

\* Path(p).unlink(); fault: the operating system refuses the removal
unlink(s, p, fault) ==
    IF fault THEN Res(s, "PermissionError", "None")
    ELSE IF p \in DOMAIN s.files
        THEN Res([s EXCEPT !.files = Remove(@, p)], "ok", "None")
    ELSE IF p \in s.dirs THEN Res(s, "IsADirectoryError", "None")
    ELSE IF FileAncestor(s, p) THEN Res(s, "NotADirectoryError", "None")
    ELSE Res(s, "FileNotFoundError", "None")

\* The error, if any, that opening local path target for writing raises.
WriteError(s, target) ==
    IF target \in s.dirs THEN "IsADirectoryError"
    ELSE IF FileAncestor(s, target) THEN "NotADirectoryError"
    ELSE IF Parent(target) \notin s.dirs THEN "FileNotFoundError"
    ELSE "ok"

\* The error, if any, that opening local path src for reading raises.
ReadError(s, src) ==
    IF src \in DOMAIN s.files THEN "ok"
    ELSE IF src \in s.dirs THEN "IsADirectoryError"
    ELSE IF FileAncestor(s, src) THEN "NotADirectoryError"
    ELSE "FileNotFoundError"

\* shutil.copy(src, dst); fault: the copy fails before anything is written
shutil_copy(s, src, dst, fault) ==
    LET target == IF dst \in s.dirs THEN dst \o <<Last(src)>> ELSE dst
    IN  IF fault THEN Res(s, "OSError", "None")
        ELSE IF src \in DOMAIN s.files /\ target = src
            THEN Res(s, "SameFileError", "None")
        ELSE IF ReadError(s, src) # "ok" THEN Res(s, ReadError(s, src), "None")
        ELSE IF WriteError(s, target) # "ok"
            THEN Res(s, WriteError(s, target), "None")
        ELSE Res([s EXCEPT !.files = Put(@, target, s.files[src])], "ok", "None")

\* os.path.getsize(p)
getsize(s, p) ==
    IF p \in DOMAIN s.files THEN Res(s, "ok", Len(s.files[p]))
    ELSE IF p \in s.dirs THEN Res(s, "ok", 4096)
    ELSE IF FileAncestor(s, p) THEN Res(s, "NotADirectoryError", "None")
    ELSE Res(s, "FileNotFoundError", "None")

\* list(Path(d).glob(pattern)): the direct children whose name matches
glob(s, d, pattern) ==
    Res(s, "ok", {p \in Children(s, d) : Matches(pattern, Last(p))})

\* list(Path(d).iterdir())
iterdir(s, d) ==
    IF d \in s.dirs THEN Res(s, "ok", Children(s, d))
    ELSE IF d \in DOMAIN s.files \/ FileAncestor(s, d)
        THEN Res(s, "NotADirectoryError", "None")
    ELSE Res(s, "FileNotFoundError", "None")

----------------------------------------------------------------------------
\* S3Ops, the object store collaborator (file_flows/s3.py).

\* S3Ops.is_s3_path: the path starts with "s3://"
is_s3_path(p) == Len(p) >= 2 /\ p[1] = "s3:" /\ p[2] = ""

\* S3Ops.bucket_and_partition: the bucket, and the key after it
bucket_and_partition(p) == <<p[3], SubSeq(p, 4, Len(p))>>

\* S3Ops.get_bucket: the bucket, created when it does not exist
s3_get_bucket(s, bucket_name) ==
    Res([s EXCEPT !.buckets = @ \cup {bucket_name}], "ok", "None")

\* S3Ops.exists
s3_exists(s, p) == Res(s, "ok", bucket_and_partition(p) \in DOMAIN s.objects)

\* S3Ops.delete_file; fault: the store refuses the request
s3_delete_file(s, p, if_exists, fault) ==
    LET k == bucket_and_partition(p)
    IN  IF fault THEN Res(s, "ClientError", "None")
        ELSE IF k \in DOMAIN s.objects
            THEN Res([s EXCEPT !.objects = Remove(@, k)], "ok", "None")
        ELSE IF if_exists THEN Res(s, "ok", "None")
        ELSE Res(s, "NoSuchKey", "None")

\* S3Ops.download_file(s3_path, local_path, overwrite=True)
s3_download_file(s, s3_path, local_path, fault) ==
    LET k == bucket_and_partition(s3_path)
    IN  IF fault THEN Res(s, "ClientError", "None")
        ELSE IF k \notin DOMAIN s.objects THEN Res(s, "NoSuchKey", "None")
        ELSE IF WriteError(s, local_path) # "ok"
            THEN Res(s, WriteError(s, local_path), "None")
        ELSE Res([s EXCEPT !.files = Put(@, local_path, s.objects[k])],
                 "ok", "None")

\* S3Ops.transfer_s3_location(src_path, dst_path, delete_src): a server-side
\* copy, then the removal of the source when delete_src is set.
\* fault "step": the copy fails; fault "mid": the copy succeeds and the
\* removal that follows it fails.
s3_transfer_s3_location(s, src_path, dst_path, delete_src, fault) ==
    LET k == bucket_and_partition(src_path)
        d == bucket_and_partition(dst_path)
        copied == [s EXCEPT !.objects = Put(@, d, s.objects[k])]
    IN  IF fault = "step" THEN Res(s, "ClientError", "None")
        ELSE IF k \notin DOMAIN s.objects THEN Res(s, "NoSuchKey", "None")
        ELSE IF d[1] \notin s.buckets THEN Res(s, "NoSuchBucket", "None")
        ELSE IF ~delete_src THEN Res(copied, "ok", "None")
        ELSE IF fault = "mid" THEN Res(copied, "ClientError", "None")
        ELSE Res([copied EXCEPT !.objects = Remove(@, k)], "ok", "None")

\* S3Ops.file_size
s3_file_size(s, p) ==
    LET k == bucket_and_partition(p)
    IN  IF k \in DOMAIN s.objects THEN Res(s, "ok", Len(s.objects[k]))
        ELSE Res(s, "NoSuchKey", "None")

\* S3Ops.list_files(directory, pattern): the objects under the prefix
IsPrefix(q, p) == Len(q) <= Len(p) /\ SubSeq(p, 1, Len(q)) = q
s3_list_files(s, directory, pattern) ==
    LET d == bucket_and_partition(directory)
    IN  Res(s, "ok",
            {k \in DOMAIN s.objects :
                /\ k[1] = d[1]
                /\ IsPrefix(d[2], k[2])
                /\ (pattern # "" => Len(k[2]) > 0 /\ Matches(pattern, Last(k[2])))})

\* self.s3.client.upload_file(filename, bucket, key) (boto3)
upload_file(s, src, bucket_name, file_path, fault) ==
    IF fault THEN Res(s, "ClientError", "None")
    ELSE IF ReadError(s, src) # "ok" THEN Res(s, ReadError(s, src), "None")
    ELSE IF bucket_name \notin s.buckets THEN Res(s, "NoSuchBucket", "None")
    ELSE Res([s EXCEPT !.objects = Put(@, <<bucket_name, file_path>>, s.files[src])],
             "ok", "None")

----------------------------------------------------------------------------
\* FileOps: each operation on state s, giving the state it leaves, the
\* backend actions it issued, the exception it raised and its value.

\* create with exist_ok dropped: an existing directory raises.
create_not_exist_ok(s, location) ==
    IF is_s3_path(location)
    THEN Issue(s3_get_bucket(s, bucket_and_partition(location)[1]),
               "s3.get_bucket", location, NoPath, FALSE)
    ELSE IF location \in s.dirs
    THEN Issue(Res(s, "FileExistsError", "None"), "mkdir", location, NoPath, FALSE)
    ELSE Issue(mkdir(s, location), "mkdir", location, NoPath, FALSE)

\* create making the directory before it looks at the path.
create_mkdir_first(s, location) ==
    LET m == mkdir(s, location)
    IN  IF is_s3_path(location)
        THEN Issue(s3_get_bucket(m.st, bucket_and_partition(location)[1]),
                   "s3.get_bucket", location, NoPath, FALSE)
        ELSE Issue(m, "mkdir", location, NoPath, FALSE)

create(s, location) ==
    IF is_s3_path(location)
    THEN LET bucket_name == bucket_and_partition(location)[1]
         IN  Issue(s3_get_bucket(s, bucket_name), "s3.get_bucket",
                   location, NoPath, FALSE)
    ELSE Issue(mkdir(s, location), "mkdir", location, NoPath, FALSE)

\* delete re-raising FileNotFoundError whatever if_exists says.
delete_ignores_if_exists(s, file, if_exists, fault) ==
    IF is_s3_path(file)
    THEN Issue(s3_delete_file(s, file, if_exists, fault), "s3.delete_file",
               file, NoPath, FALSE)
    ELSE Issue(unlink(s, file, fault), "unlink", file, NoPath, FALSE)

delete(s, file, if_exists, fault) ==
    IF is_s3_path(file)
    THEN Issue(s3_delete_file(s, file, if_exists, fault), "s3.delete_file",
               file, NoPath, FALSE)
    ELSE LET u == Issue(unlink(s, file, fault), "unlink", file, NoPath, FALSE)
         IN  IF u.result = "FileNotFoundError" /\ if_exists
             THEN [u EXCEPT !.result = "ok"]
             ELSE u

\* transfer_step with the upload branch an `if` instead of an `elif`: a
\* transfer to the store from the store goes on to upload as well.
transfer_step_if_for_elif(s, src_path, dst_path, delete_src, fault) ==
    LET bp == bucket_and_partition(dst_path)
        t == Issue(s3_transfer_s3_location(s, src_path, dst_path, delete_src, fault),
                   "s3.transfer_s3_location", src_path, dst_path, delete_src)
        u == Issue(upload_file(t.st, src_path, bp[1], bp[2], fault = "step"),
                   "s3.client.upload_file", src_path, dst_path, FALSE)
    IN  IF is_s3_path(src_path)
        THEN IF is_s3_path(dst_path)
             THEN IF t.result # "ok" THEN t ELSE [u EXCEPT !.log = t.log \o u.log]
             ELSE Issue(s3_download_file(s, src_path, dst_path, fault = "step"),
                        "s3.download_file", src_path, dst_path, FALSE)
        ELSE IF is_s3_path(dst_path)
        THEN Issue(upload_file(s, src_path, bp[1], bp[2], fault = "step"),
                   "s3.client.upload_file", src_path, dst_path, FALSE)
        ELSE Issue(shutil_copy(s, src_path, dst_path, fault = "step"),
                   "shutil.copy", src_path, dst_path, FALSE)

\* The branch of transfer that moves the bytes (lines 38-55).
transfer_step(s, src_path, dst_path, delete_src, fault) ==
    IF is_s3_path(src_path)
    THEN IF is_s3_path(dst_path)
         THEN Issue(s3_transfer_s3_location(s, src_path, dst_path, delete_src, fault),
                    "s3.transfer_s3_location", src_path, dst_path, delete_src)
         ELSE Issue(s3_download_file(s, src_path, dst_path, fault = "step"),
                    "s3.download_file", src_path, dst_path, FALSE)
    ELSE IF is_s3_path(dst_path)
    THEN LET bp == bucket_and_partition(dst_path)
         IN  Issue(upload_file(s, src_path, bp[1], bp[2], fault = "step"),
                   "s3.client.upload_file", src_path, dst_path, FALSE)
    ELSE Issue(shutil_copy(s, src_path, dst_path, fault = "step"),
               "shutil.copy", src_path, dst_path, FALSE)

\* transfer deleting the source whatever delete_src says.
transfer_always_deletes(s, src_path, dst_path, delete_src, fault) ==
    LET t == transfer_step(s, src_path, dst_path, delete_src, fault)
        d == delete(t.st, src_path, FALSE, fault = "delete")
    IN  IF t.result # "ok" THEN t ELSE [d EXCEPT !.log = t.log \o d.log]

\* transfer deleting the source in a `finally`: also when the step raised.
transfer_deletes_in_finally(s, src_path, dst_path, delete_src, fault) ==
    LET t == transfer_step(s, src_path, dst_path, delete_src, fault)
        d == delete(t.st, src_path, FALSE, fault = "delete")
    IN  IF ~delete_src THEN t
        ELSE IF t.result # "ok" THEN [t EXCEPT !.st = d.st, !.log = t.log \o d.log]
        ELSE [d EXCEPT !.log = t.log \o d.log]

transfer(s, src_path, dst_path, delete_src, fault) ==
    LET t == transfer_step(s, src_path, dst_path, delete_src, fault)
        d == delete(t.st, src_path, FALSE, fault = "delete")
    IN  IF t.result # "ok" THEN t
        ELSE IF delete_src THEN [d EXCEPT !.log = t.log \o d.log]
        ELSE t

copy(s, src_path, dst_path, fault) == transfer(s, src_path, dst_path, FALSE, fault)

move(s, src_path, dst_path, fault) == transfer(s, src_path, dst_path, TRUE, fault)

exists(s, file) ==
    IF is_s3_path(file)
    THEN Issue(s3_exists(s, file), "s3.exists", file, NoPath, FALSE)
    ELSE Issue(Res(s, "ok", path_exists(s, file)), "Path.exists", file, NoPath, FALSE)

file_size(s, file) ==
    IF is_s3_path(file)
    THEN Issue(s3_file_size(s, file), "s3.file_size", file, NoPath, FALSE)
    ELSE Issue(getsize(s, file), "getsize", file, NoPath, FALSE)

list_files(s, directory, pattern) ==
    IF is_s3_path(directory)
    THEN Issue(s3_list_files(s, directory, pattern), "s3.list_files",
               directory, NoPath, FALSE)
    ELSE IF pattern # ""
    THEN Issue(glob(s, directory, pattern), "glob", directory, NoPath, FALSE)
    ELSE Issue(iterdir(s, directory), "iterdir", directory, NoPath, FALSE)

----------------------------------------------------------------------------
\* The state machine of sequential calls on one FileOps instance.

Call(name, a, b, flag, pattern, fault) ==
    [name |-> name, a |-> a, b |-> b, flag |-> flag, pattern |-> pattern,
     fault |-> fault]

InitFs ==
    /\ dirs \in {{Root}, {Root, D}}
    /\ files \in {EmptyFn, Put(EmptyFn, DA, <<1>>),
                  Put(Put(EmptyFn, DA, <<1>>), DB, <<2, 2>>)}
    /\ (DOMAIN files # {}) = (D \in dirs)
    /\ buckets = {"bk"}
    /\ objects \in {EmptyFn, Put(EmptyFn, bucket_and_partition(SA), <<3, 3, 3>>)}

InitCall ==
    /\ op = Call("none", NoPath, NoPath, FALSE, "", "none")
    /\ result = "ok"
    /\ ret = "None"
    /\ log = << >>
    /\ pre = St
    /\ ncalls = 0

InitThreads ==
    /\ lock = 0
    /\ tpc = [t \in Threads |-> "idle"]
    /\ tval = [t \in Threads |-> 0]
    /\ tused = [t \in Threads |-> {}]
    /\ tcalls = [t \in Threads |-> 0]

\* __init__ stores the configuration and constructs nothing.
Init ==
    /\ InitFs
    /\ InitCall
    /\ InitThreads
    /\ locking = FALSE
    /\ cache = 0
    /\ constructed = 0

\* self.s3 in a call that runs alone: the cached handle, constructed on the
\* first access.
S3Access ==
    /\ cache' = IF cache = 0 THEN constructed + 1 ELSE cache
    /\ constructed' = IF cache = 0 THEN constructed + 1 ELSE constructed

\* One call: the handler runs from the current state and its outcome is
\* recorded.
Do(o, out) ==
    /\ ncalls < MaxCalls
    /\ ncalls' = ncalls + 1
    /\ op' = o
    /\ pre' = St
    /\ dirs' = out.st.dirs
    /\ files' = out.st.files
    /\ buckets' = out.st.buckets
    /\ objects' = out.st.objects
    /\ log' = out.log
    /\ result' = out.result
    /\ ret' = out.ret
    /\ S3Access
    /\ UNCHANGED thvars

\* The failures the environment can inject into a transfer: "step" fails the
\* transfer step, "mid" fails a server-side transfer between its copy and
\* its removal of the source, "delete" fails the delete that follows.
FaultFits(a, b, d, f) ==
    /\ f = "mid" => (is_s3_path(a) /\ is_s3_path(b) /\ d)
    /\ f = "delete" => d

Create ==
    \E location \in Paths :
        Do(Call("create", location, NoPath, FALSE, "", "none"), create(St, location))

Transfer ==
    \E a \in Paths, b \in Paths, d \in BOOLEAN, f \in Faults :
        /\ FaultFits(a, b, d, f)
        /\ Do(Call("transfer", a, b, d, "", f), transfer(St, a, b, d, f))

Copy ==
    \E a \in Paths, b \in Paths :
        Do(Call("copy", a, b, FALSE, "", "none"), copy(St, a, b, "none"))

Move ==
    \E a \in Paths, b \in Paths :
        Do(Call("move", a, b, TRUE, "", "none"), move(St, a, b, "none"))

Delete ==
    \E file \in Paths, if_exists \in BOOLEAN, f \in {"none", "delete"} :
        Do(Call("delete", file, NoPath, if_exists, "", f),
           delete(St, file, if_exists, f = "delete"))

Exists ==
    \E file \in Paths :
        Do(Call("exists", file, NoPath, FALSE, "", "none"), exists(St, file))

FileSize ==
    \E file \in Paths :
        Do(Call("file_size", file, NoPath, FALSE, "", "none"), file_size(St, file))

ListFiles ==
    \E directory \in Paths, pattern \in Patterns :
        Do(Call("list_files", directory, NoPath, FALSE, pattern, "none"),
           list_files(St, directory, pattern))

Next ==
    \/ Create
    \/ Transfer
    \/ Copy
    \/ Move
    \/ Delete
    \/ Exists
    \/ FileSize
    \/ ListFiles

Spec == Init /\ [][Next]_vars

----------------------------------------------------------------------------
\* Threads sharing one FileOps instance: each call begins by evaluating
\* self.s3, a functools.cached_property.  Up to Python 3.11 its __get__
\* computes the value under a lock; from Python 3.12 on it takes no lock.

InitConc ==
    /\ dirs = {Root}
    /\ files = EmptyFn
    /\ buckets = {"bk"}
    /\ objects = EmptyFn
    /\ InitCall
    /\ InitThreads
    /\ locking \in BOOLEAN
    /\ cache = 0
    /\ constructed = 0

Goto(t, l) == tpc' = [tpc EXCEPT ![t] = l]

\* A thread begins a FileOps call, whose first expression is self.s3.
Begin(t) ==
    /\ tpc[t] = "idle"
    /\ tcalls[t] < MaxThreadCalls
    /\ tcalls' = [tcalls EXCEPT ![t] = @ + 1]
    /\ Goto(t, "get")
    /\ UNCHANGED <<fsvars, callvars, cache, constructed, locking, lock, tval, tused>>

\* val = cache.get(attrname, _NOT_FOUND)
Get(t) ==
    /\ tpc[t] = "get"
    /\ tval' = [tval EXCEPT ![t] = cache]
    /\ Goto(t, IF cache # 0 THEN "use" ELSE IF locking THEN "acquire" ELSE "func")
    /\ UNCHANGED <<fsvars, callvars, cache, constructed, locking, lock, tused, tcalls>>

\* with self.lock:
Acquire(t) ==
    /\ tpc[t] = "acquire"
    /\ lock = 0
    /\ lock' = t
    /\ Goto(t, "recheck")
    /\ UNCHANGED <<fsvars, callvars, cache, constructed, locking, tval, tused, tcalls>>

\* the second cache.get, under the lock
Recheck(t) ==
    /\ tpc[t] = "recheck"
    /\ tval' = [tval EXCEPT ![t] = cache]
    /\ lock' = IF cache # 0 THEN 0 ELSE lock
    /\ Goto(t, IF cache # 0 THEN "use" ELSE "func")
    /\ UNCHANGED <<fsvars, callvars, cache, constructed, locking, tused, tcalls>>

\* val = self.func(instance): S3Ops(self._s3_cfg), a new handle
Func(t) ==
    /\ tpc[t] = "func"
    /\ constructed' = constructed + 1
    /\ tval' = [tval EXCEPT ![t] = constructed + 1]
    /\ Goto(t, "set")
    /\ UNCHANGED <<fsvars, callvars, cache, locking, lock, tused, tcalls>>

\* cache[attrname] = val, and the lock, if held, is released
Set(t) ==
    /\ tpc[t] = "set"
    /\ cache' = tval[t]
    /\ lock' = IF lock = t THEN 0 ELSE lock
    /\ Goto(t, "use")
    /\ UNCHANGED <<fsvars, callvars, constructed, locking, tval, tused, tcalls>>

\* The call goes on with the handle self.s3 gave it.
Use(t) ==
    /\ tpc[t] = "use"
    /\ tused' = [tused EXCEPT ![t] = @ \cup {tval[t]}]
    /\ Goto(t, "idle")
    /\ UNCHANGED <<fsvars, callvars, cache, constructed, locking, lock, tval, tcalls>>

NextConc ==
    \E t \in Threads :
        \/ Begin(t)
        \/ Get(t)
        \/ Acquire(t)
        \/ Recheck(t)
        \/ Func(t)
        \/ Set(t)
        \/ Use(t)

SpecConc == InitConc /\ [][NextConc]_vars

----------------------------------------------------------------------------
\* What the properties speak of.

TransferActs ==
    {"s3.transfer_s3_location", "s3.download_file", "s3.client.upload_file",
     "shutil.copy"}
DeleteActs == {"s3.delete_file", "unlink"}
RemoteActs ==
    {"s3.get_bucket", "s3.transfer_s3_location", "s3.download_file",
     "s3.client.upload_file", "s3.delete_file", "s3.exists", "s3.file_size",
     "s3.list_files"}
NotFoundErrors == {"FileNotFoundError", "NoSuchKey"}
SinglePathOps == {"create", "delete", "exists", "file_size", "list_files"}

IsTransfer == op.name \in {"transfer", "copy", "move"}
ExistsIn(s, p) == exists(s, p).ret
\* What location p holds in state s.
Holds(s, p) ==
    IF is_s3_path(p)
    THEN IF bucket_and_partition(p) \in DOMAIN s.objects
         THEN [kind |-> "object", data |-> s.objects[bucket_and_partition(p)]]
         ELSE [kind |-> "absent", data |-> << >>]
    ELSE IF p \in DOMAIN s.files THEN [kind |-> "file", data |-> s.files[p]]
    ELSE IF p \in s.dirs THEN [kind |-> "dir", data |-> << >>]
    ELSE [kind |-> "absent", data |-> << >>]
LogIdx(acts) == {i \in DOMAIN log : log[i].act \in acts}
StepDone == Len(log) >= 1 /\ log[1].raised = "ok"
StepFailed == Len(log) >= 1 /\ log[1].raised # "ok"
SelectedAct(a, b) ==
    IF is_s3_path(a)
    THEN IF is_s3_path(b) THEN "s3.transfer_s3_location" ELSE "s3.download_file"
    ELSE IF is_s3_path(b) THEN "s3.client.upload_file" ELSE "shutil.copy"
\* The source is a file or an object, and the destination can be written:
\* its bucket exists, or it is no directory and its parent is one.
SourceReady(s, a) == Holds(s, a).kind \in {"file", "object"}
DestReady(s, b) ==
    IF is_s3_path(b) THEN bucket_and_partition(b)[1] \in s.buckets
    ELSE b \notin s.dirs /\ Parent(b) \in s.dirs
\* A step that is a create call following a create call on the same location.
SecondCreate ==
    /\ op.name = "create"
    /\ op'.name = "create"
    /\ op'.a = op.a
    /\ ncalls' = ncalls + 1
\* The location can be a directory: it is remote, or it is no regular file
\* and no regular file stands above it.
Creatable(s, location) ==
    \/ is_s3_path(location)
    \/ /\ location \notin DOMAIN s.files
       /\ ~FileAncestor(s, location)
\* What create ensures: the directory and its parents, or the bucket.
Created(s, location) ==
    IF is_s3_path(location)
    THEN bucket_and_partition(location)[1] \in s.buckets
    ELSE Prefixes(location) \subseteq s.dirs
\* Every path of the last call is local.
AllLocal ==
    \/ op.name \in SinglePathOps /\ ~is_s3_path(op.a)
    \/ IsTransfer /\ ~is_s3_path(op.a) /\ ~is_s3_path(op.b)

----------------------------------------------------------------------------
\* C1: for each of the four backend combinations and distinct a and b with a
\* existing beforehand, transfer(a, b, delete_src=True), and so move(a, b),
\* completes without raising and leaves exists(a) false and exists(b) true.
\* Stated for the calls the environment does not fail, whose source is a
\* file or an object and whose destination can be written.
C1_MoveCompletes ==
    (/\ IsTransfer
     /\ op.flag
     /\ op.fault = "none"
     /\ op.a # op.b
     /\ ExistsIn(pre, op.a)
     /\ SourceReady(pre, op.a)
     /\ DestReady(pre, op.b))
    => (/\ result = "ok"
        /\ ~ExistsIn(St, op.a)
        /\ ExistsIn(St, op.b))

\* C2: for each of the four backend combinations and distinct a and b with a
\* existing beforehand, transfer(a, b, delete_src=False), and so copy(a, b),
\* leaves the source in place: no delete is issued, a holds what it held,
\* and when the call returns both exists(a) and exists(b) are true.
C2_CopyKeepsSource ==
    (/\ IsTransfer
     /\ ~op.flag
     /\ op.a # op.b
     /\ ExistsIn(pre, op.a))
    => (/\ LogIdx(DeleteActs) = {}
        /\ \A i \in DOMAIN log : ~log[i].delete_src
        /\ Holds(St, op.a) = Holds(pre, op.a)
        /\ ExistsIn(St, op.a)
        /\ result = "ok" => ExistsIn(St, op.b))

\* A copy from the store to a new local file that returned.
C2_Witness ==
    /\ op.name = "copy"
    /\ op.a = SA
    /\ op.b = DB
    /\ result = "ok"
    /\ ExistsIn(pre, SA)
    /\ ~ExistsIn(pre, DB)
    /\ ExistsIn(St, SA)
    /\ ExistsIn(St, DB)

\* C3: a transfer performs exactly one backend transfer action, the one the
\* pair (classify(src), classify(dst)) selects, each path classified on its
\* own: remote/remote the server-side transfer, remote/local the download,
\* local/remote the upload, local/local the byte copy.
C3_OneSelectedAction ==
    IsTransfer
    => (/\ LogIdx(TransferActs) = {1}
        /\ log[1].act = SelectedAct(op.a, op.b)
        /\ log[1].src = op.a
        /\ log[1].dst = op.b)

\* An upload: a local file transferred to the store, byte for byte.
C3_Witness ==
    /\ op.name = "transfer"
    /\ op.a = DA
    /\ op.b = SB
    /\ result = "ok"
    /\ Len(log) = 1
    /\ log[1].act = "s3.client.upload_file"
    /\ Holds(St, SB).data = Holds(pre, DA).data

\* C4: delete(x, if_exists=True) never raises a not-found error, for a local
\* or a remote x, whether or not x exists beforehand; when it returns
\* exists(x) is false, and when x was absent beforehand the file system and
\* the store are as they were (and the call returns, unless the environment
\* fails it or a regular file stands where a directory of x should be).
C4_DeleteIfExists ==
    (op.name = "delete" /\ op.flag)
    => (/\ result \notin NotFoundErrors
        /\ result = "ok" => ~ExistsIn(St, op.a)
        /\ ~ExistsIn(pre, op.a) => St = pre
        /\ (~ExistsIn(pre, op.a) /\ op.fault = "none" /\ ~FileAncestor(pre, op.a))
            => result = "ok")

\* A delete with if_exists of a local file that was not there.
C4_Witness ==
    /\ op.name = "delete"
    /\ op.flag
    /\ op.a = DB
    /\ ~ExistsIn(pre, DB)
    /\ log[1].raised = "FileNotFoundError"
    /\ result = "ok"

C6_OneHandle ==
    /\ constructed <= 1
    /\ Cardinality(UNION {tused[t] : t \in Threads}) <= 1

\* C7: in transfer(src, dst, delete_src=True), when the transfer step succeeds
\* and the delete of the source that follows fails, the failure raised is the
\* delete's, the destination written is kept and the source still exists.
C7_DeleteFailureKeepsBoth ==
    (/\ IsTransfer
     /\ op.flag
     /\ op.a # op.b
     /\ StepDone
     /\ Len(log) = 2
     /\ log[2].raised # "ok")
    => (/\ result = log[2].raised
        /\ ExistsIn(St, op.b)
        /\ ExistsIn(St, op.a))

\* C8: in a transfer with delete_src set, the deletion of the source is
\* requested exactly once, by delete and after the transfer step completed,
\* in each of the four combinations; the transfer step is never asked to
\* delete the source.
C8_DeleteRequestedOnce ==
    (IsTransfer /\ op.flag /\ StepDone)
    => (/\ LogIdx(DeleteActs) = {2}
        /\ \A i \in LogIdx(TransferActs) : ~log[i].delete_src)

C10_BackendFrame ==
    /\ AllLocal =>
        (/\ LogIdx(RemoteActs) = {}
         /\ buckets = pre.buckets
         /\ objects = pre.objects)
    /\ (op.name \in SinglePathOps /\ is_s3_path(op.a)) =>
        (/\ LogIdx(RemoteActs) = DOMAIN log
         /\ dirs = pre.dirs
         /\ files = pre.files)

\* create on a remote path whose bucket did not exist.
C10_Witness ==
    /\ op.name = "create"
    /\ op.a = SN
    /\ "nb" \notin pre.buckets
    /\ "nb" \in buckets
    /\ dirs = pre.dirs
    /\ files = pre.files

====
